---- MODULE Spec2Model ----
(***************************************************************************)
(* Model of aoc-timeline (src/src/main.rs).                                *)
(*                                                                         *)
(* Two specifications share this module:                                   *)
(*   Spec        the snapshot cache and the run of main over LEADERBOARDS: *)
(*               get_json's cache lookup, fetch and persist, and the ways  *)
(*               a run ends (return, process::exit(1), panic).             *)
(*   SpecReport  timeline() and the scoring loop of report() applied to a  *)
(*               members map drawn from bounded sets.                      *)
(* Time in Spec is counted in minutes.  Time in SpecReport is counted in   *)
(* seconds relative to the unlock instant of December 1st.                 *)
(***************************************************************************)
EXTENDS Integers, Sequences, FiniteSets, TLC

(***************************************************************************)
(* Program constants                                                       *)
(***************************************************************************)
LEADERBOARDS == <<649161, 1027450>>

TTL == 15

(***************************************************************************)
(* Bounds of the model                                                     *)
(***************************************************************************)
MaxNow == 17

MaxFetchDelay == 1

NumSnapshots == 2

MaxMembers == 2

MaxCompletions == 3

VARIABLES
    cacheFile,   \* .aoc.json: [kind: absent | corrupt | valid, cache: id -> CacheEntry]
    now,         \* Local::now(), minutes
    pc,          \* the process: idle | running | done | exited | panicked
    idx,         \* position of main's loop in LEADERBOARDS
    args,        \* Cli: [all, flush_cache]
    attempted,   \* positions of LEADERBOARDS whose report was started in this run
    failed,      \* positions of LEADERBOARDS whose fetch failed in this run
    last,        \* the get_json call made by the last step: [outcome, fetches, data]
    persisted,   \* id -> the entry written by the last successful fetch for id
    members,     \* aoc.members: key -> Member
    rpc,         \* position in report: start | loop | done | panicked | overflow
    max_score,   \* line 160
    tl,          \* the vector returned by timeline
    pos,         \* position of the scoring loop in tl
    score,       \* star -> pool counter (usize)
    total_score, \* member label -> total (usize)
    assigned,    \* star_score of the events processed so far, in order
    all,         \* report's parameter all (--all)
    today,       \* line 165: the day of the month on which report runs
    day,         \* line 162: the date of the last printed header, 0 for none
    printed      \* the event lines printed so far (lines 181-188)

cacheVars == <<cacheFile, now, pc, idx, args, attempted, failed, last, persisted>>

reportVars == <<members, rpc, max_score, tl, pos, score, total_score, assigned,
               all, today, day, printed>>

vars == <<cacheVars, reportVars>>

(***************************************************************************)
(* Data                                                                    *)
(***************************************************************************)
Snapshots == 1..NumSnapshots

NoData == 0

Ids == {LEADERBOARDS[i] : i \in 1..Len(LEADERBOARDS)}

EmptyCache == [id \in {} |-> NoData]

AbsentFile == [kind |-> "absent", cache |-> EmptyCache]

CorruptFile == [kind |-> "corrupt", cache |-> EmptyCache]

ValidFile(cache) == [kind |-> "valid", cache |-> cache]

CacheEntry(t, aoc) == [timestamp |-> t, data |-> aoc]

NoCall == [outcome |-> "none", fetches |-> 0, data |-> NoData]

Call(outcome, fetches, data) == [outcome |-> outcome, fetches |-> fetches, data |-> data]

NoEntry == [timestamp |-> -1, data |-> NoData]

(***************************************************************************)
(* get_json, lines 56-67                                                   *)
(***************************************************************************)
\* line 58: the cache file is read only without --flush-cache and when it exists
ReadsCacheFile(flush_cache) == ~flush_cache /\ cacheFile.kind # "absent"

\* line 59: serde_json::from_str(..).unwrap() panics on a file that does not parse
ParsePanics(flush_cache) == ReadsCacheFile(flush_cache) /\ cacheFile.kind = "corrupt"

\* lines 57-59: the in-memory cache after the load
LoadCache(flush_cache) ==
    IF ReadsCacheFile(flush_cache) THEN cacheFile.cache ELSE EmptyCache

\* line 62
IsFresh(entry, t) == entry.timestamp + TTL > t

\* lines 58-66: the call returns the cached snapshot
CacheHit(leaderbord, flush_cache) ==
    /\ ReadsCacheFile(flush_cache)
    /\ ~ParsePanics(flush_cache)
    /\ leaderbord \in DOMAIN LoadCache(flush_cache)
    /\ IsFresh(LoadCache(flush_cache)[leaderbord], now)

\* lines 91-97: cache.insert(leaderbord, CacheEntry { timestamp: Local::now(), data: aoc })
CacheInsert(cache, leaderbord, entry) ==
    [id \in DOMAIN cache \cup {leaderbord} |->
        IF id = leaderbord THEN entry ELSE cache[id]]

(***************************************************************************)
(* main, lines 210-215                                                     *)
(***************************************************************************)
Running == pc = "running" /\ idx \in 1..Len(LEADERBOARDS)

Leaderbord == LEADERBOARDS[idx]

\* report returned: the loop of main moves to the next leaderboard or main returns
ReportReturns ==
    /\ idx' = idx + 1
    /\ pc' = IF idx + 1 > Len(LEADERBOARDS) THEN "done" ELSE "running"

\* the process ends inside report: the loop of main never resumes
ProcessEnds(how) ==
    /\ pc' = how
    /\ idx' = idx

\* a run of the command line tool starts (Cli::parse, line 211)
MainStart ==
    /\ pc # "running"
    /\ \E show_all \in BOOLEAN, flush_cache \in BOOLEAN :
          args' = [all |-> show_all, flush_cache |-> flush_cache]
    /\ pc' = "running"
    /\ idx' = 1
    /\ attempted' = {}
    /\ failed' = {}
    /\ last' = NoCall
    /\ UNCHANGED <<cacheFile, now, persisted>>
    /\ UNCHANGED reportVars

(***************************************************************************)
(* report(leaderbord, all, flush_cache): one iteration of main's loop.     *)
(* One action per way get_json can end.  The rest of report (timeline and  *)
(* the scoring loop) touches no state of this specification; it is         *)
(* modelled step by step in SpecReport.                                    *)
(***************************************************************************)
\* Report_CacheHit, but the hit path saves the cache with a refreshed timestamp
Report_CacheHit_Touch ==
    /\ Running
    /\ CacheHit(Leaderbord, args.flush_cache)
    /\ last' = Call("hit", 0, LoadCache(args.flush_cache)[Leaderbord].data)
    /\ cacheFile' = ValidFile(CacheInsert(LoadCache(args.flush_cache), Leaderbord,
                        CacheEntry(now + 1, LoadCache(args.flush_cache)[Leaderbord].data)))
    /\ attempted' = attempted \cup {idx}
    /\ ReportReturns
    /\ UNCHANGED <<now, args, failed, persisted>>
    /\ UNCHANGED reportVars

\* lines 58-65: fresh entry, "using cache"
Report_CacheHit ==
    /\ Running
    /\ CacheHit(Leaderbord, args.flush_cache)
    /\ last' = Call("hit", 0, LoadCache(args.flush_cache)[Leaderbord].data)
    /\ attempted' = attempted \cup {idx}
    /\ ReportReturns
    /\ UNCHANGED <<cacheFile, now, args, failed, persisted>>
    /\ UNCHANGED reportVars

\* line 59: the cache file does not parse, unwrap panics
Report_CachePanic ==
    /\ Running
    /\ ParsePanics(args.flush_cache)
    /\ last' = Call("panic_cache", 0, NoData)
    /\ attempted' = attempted \cup {idx}
    /\ ProcessEnds("panicked")
    /\ UNCHANGED <<cacheFile, now, args, failed, persisted>>
    /\ UNCHANGED reportVars

\* lines 68-99: the fetch answers 200 with a snapshot; insert, write, return
Report_FetchOk ==
    /\ Running
    /\ ~ParsePanics(args.flush_cache)
    /\ ~CacheHit(Leaderbord, args.flush_cache)
    /\ \E aoc \in Snapshots, delay \in 0..MaxFetchDelay :
          /\ now + delay <= MaxNow
          /\ now' = now + delay
          /\ cacheFile' = ValidFile(CacheInsert(LoadCache(args.flush_cache), Leaderbord,
                                                CacheEntry(now + delay, aoc)))
          /\ persisted' = [persisted EXCEPT ![Leaderbord] = CacheEntry(now + delay, aoc)]
          /\ last' = Call("fetched", 1, aoc)
    /\ attempted' = attempted \cup {idx}
    /\ ReportReturns
    /\ UNCHANGED <<args, failed>>
    /\ UNCHANGED reportVars

\* Report_FetchRejected, but report returns to main's loop instead of exiting
Report_FetchRejected_Continue ==
    /\ Running
    /\ ~ParsePanics(args.flush_cache)
    /\ ~CacheHit(Leaderbord, args.flush_cache)
    /\ \E delay \in 0..MaxFetchDelay :
          /\ now + delay <= MaxNow
          /\ now' = now + delay
    /\ last' = Call("exit", 1, NoData)
    /\ attempted' = attempted \cup {idx}
    /\ failed' = failed \cup {idx}
    /\ ReportReturns
    /\ UNCHANGED <<cacheFile, args, persisted>>
    /\ UNCHANGED reportVars

\* lines 82-88: the answer is not 200, std::process::exit(1)
Report_FetchRejected ==
    /\ Running
    /\ ~ParsePanics(args.flush_cache)
    /\ ~CacheHit(Leaderbord, args.flush_cache)
    /\ \E delay \in 0..MaxFetchDelay :
          /\ now + delay <= MaxNow
          /\ now' = now + delay
    /\ last' = Call("exit", 1, NoData)
    /\ attempted' = attempted \cup {idx}
    /\ failed' = failed \cup {idx}
    /\ ProcessEnds("exited")
    /\ UNCHANGED <<cacheFile, args, persisted>>
    /\ UNCHANGED reportVars

\* lines 81, 89, 90: transport error or unreadable body, unwrap panics
Report_FetchPanic ==
    /\ Running
    /\ ~ParsePanics(args.flush_cache)
    /\ ~CacheHit(Leaderbord, args.flush_cache)
    /\ \E delay \in 0..MaxFetchDelay :
          /\ now + delay <= MaxNow
          /\ now' = now + delay
    /\ last' = Call("panic_fetch", 1, NoData)
    /\ attempted' = attempted \cup {idx}
    /\ failed' = failed \cup {idx}
    /\ ProcessEnds("panicked")
    /\ UNCHANGED <<cacheFile, args, persisted>>
    /\ UNCHANGED reportVars

(***************************************************************************)
(* Environment                                                             *)
(***************************************************************************)
\* the clock advances
Tick ==
    /\ now < MaxNow
    /\ now' = now + 1
    /\ last' = NoCall
    /\ UNCHANGED <<cacheFile, pc, idx, args, attempted, failed, persisted>>
    /\ UNCHANGED reportVars

\* the cache file is damaged outside a run (truncated, edited by hand)
CorruptCacheFile ==
    /\ pc # "running"
    /\ cacheFile.kind = "valid"
    /\ cacheFile' = CorruptFile
    /\ persisted' = [id \in Ids |-> NoEntry]
    /\ last' = NoCall
    /\ UNCHANGED <<now, pc, idx, args, attempted, failed>>
    /\ UNCHANGED reportVars

\* the cache file is deleted outside a run
RemoveCacheFile ==
    /\ pc # "running"
    /\ cacheFile.kind # "absent"
    /\ cacheFile' = AbsentFile
    /\ persisted' = [id \in Ids |-> NoEntry]
    /\ last' = NoCall
    /\ UNCHANGED <<now, pc, idx, args, attempted, failed>>
    /\ UNCHANGED reportVars

(***************************************************************************)
(* Input of timeline: the members map of a snapshot, drawn from bounded    *)
(* sets.  Time is in seconds since the unlock instant of December 1st.     *)
(***************************************************************************)
SecondsPerDay == 86400

DaysInDecember == 31

\* day numbers found in completion_day_level (u32 keys)
DayNos == {1, 2}

\* star numbers found in a day of completion_day_level (u32 keys)
StarNos == {1, 2}

\* values of get_star_ts: 5 and 10 minutes after the unlock of day 1, and 5
\* minutes after the unlock of day 2
TimeStamps == {300, 600, SecondsPerDay + 300}

Names == <<"A", "B", "C", "D">>

\* Option<String>: <<>> is None, <<x>> is Some(x).  The members are all
\* anonymous, or carry different names, or all carry the same name.
Namings(n) ==
    {[k \in 1..n |-> <<>>], [k \in 1..n |-> <<Names[k]>>], [k \in 1..n |-> <<Names[1]>>]}

Cells(n) == (1..n) \X DayNos \X StarNos

\* the number of completions of member k in comps
Solved(comps, k) == Cardinality({c \in DOMAIN comps : c[1] = k})

\* the completions of n members, at most MaxCompletions in all.  The keys of
\* the map carry no order, so the members are numbered by decreasing number
\* of completions: every members map is one of these up to the numbering.
CompletionMaps(n) ==
    {comps \in UNION {[D -> TimeStamps] :
                        D \in {D \in SUBSET Cells(n) : Cardinality(D) <= MaxCompletions}} :
        \A k \in 1..(n - 1) : Solved(comps, k) >= Solved(comps, k + 1)}

\* the completions of two members on day 1, solved 5, 10 or 25 minutes after
\* the unlock
OneDayMaps ==
    UNION {[D -> {300, 600, 1500}] : D \in SUBSET ((1..2) \X {1} \X {1, 2})}

\* completions of day 1, of day 26 and of a day December does not have, with
\* star numbers 1 and 3, each solved 5 minutes after 06:00 of its day
IrregularCells(n) == (1..n) \X {1, 26, 32} \X {1, 3}

IrregularMaps(n) ==
    {[c \in D |-> (c[2] - 1) * SecondsPerDay + 300] :
        D \in {D \in SUBSET IrregularCells(n) : Cardinality(D) <= 3}}

\* elapsed times of whole hours, minutes and seconds
Durations ==
    {h * 3600 + m * 60 + sec :
        h \in {0, 1, 23, 24, 25, 49}, m \in {0, 3, 59}, sec \in {0, 5, 9, 59}}

\* the members map with n members, their names and their completions
BuildMembers(n, names, comps) ==
    [k \in 1..n |->
        [name |-> names[k],
         id |-> k,
         completion_day_level |->
            [d \in {c[2] : c \in {c \in DOMAIN comps : c[1] = k}} |->
                [st \in {c[3] : c \in {c \in DOMAIN comps : c[1] = k /\ c[2] = d}} |->
                    [get_star_ts |-> comps[<<k, d, st>>]]]]]]

NoMembers == BuildMembers(0, <<>>, <<>>)

(***************************************************************************)
(* timeline, lines 123-155                                                 *)
(***************************************************************************)
\* lines 128-131: Local.with_ymd_and_hms(YEAR, 12, dayno, 6, 0, 0).single()
\* is None for a day that December does not have, and unwrap panics
ValidDay(dayno) == dayno \in 1..DaysInDecember

Unlock(dayno) == (dayno - 1) * SecondsPerDay

\* lines 141-145 with every member labelled by its id
Label_ById(member) == "Anonymous#" \o ToString(member.id)

\* lines 141-145
Label(member) ==
    IF member.name # <<>> THEN member.name[1]
    ELSE "Anonymous#" \o ToString(member.id)

Pad2(n) == IF n < 10 THEN "0" \o ToString(n) ELSE ToString(n)

\* line 146: format!("{:02}-{}", dayno, star) without the day number
StarKey_StarOnly(dayno, star) == ToString(star)

\* line 146: format!("{:02}-{}", dayno, star)
StarKey(dayno, star) == Pad2(dayno) \o "-" \o ToString(star)

\* Report with the subtraction of line 140 reversed
Report_Reversed(solvetime, start, member, dayno, star) ==
    [timestamp |-> solvetime,
     elapsed |-> start - solvetime,
     member |-> Label(member),
     star |-> StarKey(dayno, star)]

\* lines 138-147
Report(solvetime, start, member, dayno, star) ==
    [timestamp |-> solvetime,
     elapsed |-> solvetime - start,
     member |-> Label(member),
     star |-> StarKey(dayno, star)]

\* StarEvents without line 148: start stays the unlock instant
RECURSIVE StarEvents_NoAdvance(_, _, _, _)
StarEvents_NoAdvance(member, dayno, star, start) ==
    IF star > 2 THEN <<>>
    ELSE LET stars == member.completion_day_level[dayno]
         IN  IF star \in DOMAIN stars
             THEN <<Report(stars[star].get_star_ts, start, member, dayno, star)>>
                    \o StarEvents_NoAdvance(member, dayno, star + 1, start)
             ELSE StarEvents_NoAdvance(member, dayno, star + 1, start)

\* lines 132-150: the loop over star in 1..=2, from star on
RECURSIVE StarEvents(_, _, _, _)
StarEvents(member, dayno, star, start) ==
    IF star > 2 THEN <<>>
    ELSE LET stars == member.completion_day_level[dayno]
         IN  IF star \in DOMAIN stars
             THEN LET solvetime == stars[star].get_star_ts
                  IN  <<Report(solvetime, start, member, dayno, star)>>
                        \o StarEvents(member, dayno, star + 1, solvetime)
             ELSE StarEvents(member, dayno, star + 1, start)

\* line 126: keys().sorted()
RECURSIVE Sorted(_)
Sorted(S) ==
    IF S = {} THEN <<>>
    ELSE LET m == CHOOSE x \in S : \A y \in S : x <= y
         IN  <<m>> \o Sorted(S \ {m})

\* lines 126-151: the loop over the days of one member, from position n of
\* the sorted day numbers on
RECURSIVE DayEvents(_, _, _)
DayEvents(member, days, n) ==
    IF n > Len(days) THEN <<>>
    ELSE StarEvents(member, days[n], 1, Unlock(days[n]))
           \o DayEvents(member, days, n + 1)

MemberEvents(member) ==
    DayEvents(member, Sorted(DOMAIN member.completion_day_level), 1)

\* the orders in which members.values() can iterate a HashMap
Orders(S) ==
    {o \in [1..Cardinality(S) -> S] : \A m, n \in DOMAIN o : m # n => o[m] # o[n]}

\* lines 125-152: the vector before the sort
RECURSIVE Pushed(_, _, _)
Pushed(ms, order, n) ==
    IF n > Len(order) THEN <<>>
    ELSE MemberEvents(ms[order[n]]) \o Pushed(ms, order, n + 1)

\* InsertByTimestamp as a merge that keeps one element per timestamp
RECURSIVE InsertByTimestamp_Unique(_, _)
InsertByTimestamp_Unique(sorted, x) ==
    IF sorted = <<>> THEN <<x>>
    ELSE IF sorted[Len(sorted)].timestamp = x.timestamp THEN sorted
    ELSE IF sorted[Len(sorted)].timestamp < x.timestamp THEN Append(sorted, x)
    ELSE Append(InsertByTimestamp_Unique(SubSeq(sorted, 1, Len(sorted) - 1), x),
                sorted[Len(sorted)])

\* the place of an element in a run sorted by timestamp, after its equals
RECURSIVE InsertByTimestamp(_, _)
InsertByTimestamp(sorted, x) ==
    IF sorted = <<>> THEN <<x>>
    ELSE IF sorted[Len(sorted)].timestamp <= x.timestamp THEN Append(sorted, x)
    ELSE Append(InsertByTimestamp(SubSeq(sorted, 1, Len(sorted) - 1), x),
                sorted[Len(sorted)])

\* line 153 left out
SortByTimestamp_Skipped(events) == events

\* line 153: timeline.sort_by(|a, b| a.timestamp.cmp(&b.timestamp)), a stable sort
RECURSIVE SortByTimestamp(_)
SortByTimestamp(events) ==
    IF events = <<>> THEN <<>>
    ELSE InsertByTimestamp(SortByTimestamp(SubSeq(events, 1, Len(events) - 1)),
                           events[Len(events)])

\* a day number for which line 131 panics
TimelinePanics(ms) ==
    \E k \in DOMAIN ms : \E d \in DOMAIN ms[k].completion_day_level : ~ValidDay(d)

Timeline(ms, order) == SortByTimestamp(Pushed(ms, order, 1))

(***************************************************************************)
(* report, lines 157-200                                                   *)
(***************************************************************************)
EmptyMap == [k \in {} |-> 0]

\* lines 170-173, with every known pool decremented by an event
PoolAfter_AllKeys(pool, star) ==
    [k \in DOMAIN pool \cup {star} |->
        IF k \in DOMAIN pool THEN pool[k] - 1 ELSE max_score]

\* lines 170-173: score.entry(star).and_modify(|e| *e -= 1).or_insert(max_score)
PoolAfter(pool, star) ==
    [k \in DOMAIN pool \cup {star} |->
        IF k # star THEN pool[k]
        ELSE IF star \in DOMAIN pool THEN pool[star] - 1 ELSE max_score]

\* line 172: *e -= 1 on a usize that is 0 (panic in a debug build, wrap to
\* 2^64 - 1 in a release build)
PoolUnderflows(pool, star) == star \in DOMAIN pool /\ pool[star] = 0

\* lines 191-194 with the total replaced by the score instead of increased
TotalAfter_Overwrite(total, label, star_score) ==
    [k \in DOMAIN total \cup {label} |->
        IF k # label THEN total[k] ELSE star_score]

\* lines 191-194
TotalAfter(total, label, star_score) ==
    [k \in DOMAIN total \cup {label} |->
        IF k # label THEN total[k]
        ELSE IF label \in DOMAIN total THEN total[label] + star_score ELSE star_score]

(***************************************************************************)
(* duration_string, lines 102-121.  A chrono Duration is modelled by its   *)
(* whole seconds; num_days, num_hours and num_minutes truncate toward      *)
(* zero, and % is the remainder of that division.                          *)
(***************************************************************************)
Quot(a, b) == IF a >= 0 THEN a \div b ELSE -((-a) \div b)

Rem(a, b) == a - b * Quot(a, b)

num_days(d) == Quot(d, SecondsPerDay)

num_hours(d) == Quot(d, 3600)

num_minutes(d) == Quot(d, 60)

num_seconds(d) == d

\* {:02}: zero padded to two characters, the sign included
Fmt02(n) == IF 0 <= n /\ n < 10 THEN "0" \o ToString(n) ELSE ToString(n)

\* duration_string with the hours of the middle branch taken modulo 12
duration_string_Hours12(d) ==
    IF num_days(d) > 0
    THEN ToString(num_days(d)) \o "d " \o ToString(Rem(num_hours(d), 12)) \o ":"
           \o Fmt02(Rem(num_minutes(d), 60)) \o ":" \o Fmt02(Rem(num_seconds(d), 60))
    ELSE IF num_hours(d) > 0
    THEN ToString(Rem(num_hours(d), 12)) \o ":"
           \o Fmt02(Rem(num_minutes(d), 60)) \o ":" \o Fmt02(Rem(num_seconds(d), 60))
    ELSE Fmt02(Rem(num_minutes(d), 60)) \o ":" \o Fmt02(Rem(num_seconds(d), 60))

duration_string(d) ==
    IF num_days(d) > 0
    THEN ToString(num_days(d)) \o "d " \o ToString(Rem(num_hours(d), 24)) \o ":"
           \o Fmt02(Rem(num_minutes(d), 60)) \o ":" \o Fmt02(Rem(num_seconds(d), 60))
    ELSE IF num_hours(d) > 0
    THEN ToString(num_hours(d)) \o ":"
           \o Fmt02(Rem(num_minutes(d), 60)) \o ":" \o Fmt02(Rem(num_seconds(d), 60))
    ELSE Fmt02(Rem(num_minutes(d), 60)) \o ":" \o Fmt02(Rem(num_seconds(d), 60))

(***************************************************************************)
(* report, the loop and its output                                         *)
(***************************************************************************)
UnlockHour == 6

\* lines 168, 176: the local date of a timestamp, as the day of December
EventDay(timestamp) == Quot(timestamp + UnlockHour * 3600, SecondsPerDay) + 1

\* line 176
Displayed(event) == all \/ EventDay(event.timestamp) = today

\* lines 177-188: the line of an event, with the header printed before it
Line(n, event, star_score) ==
    [pos |-> n,
     header |-> EventDay(event.timestamp) # day,
     member |-> event.member,
     star |-> event.star,
     star_score |-> star_score,
     duration |-> duration_string(event.elapsed)]

\* line 160, counting only the members that have solved a star
MaxScore_Active(ms) ==
    Cardinality({k \in DOMAIN ms : DOMAIN ms[k].completion_day_level # {}})

\* line 160
MaxScore(ms) == Cardinality(DOMAIN ms)

\* lines 159-167: max_score, the empty maps and the call of timeline
ReportBegin ==
    /\ rpc = "start"
    /\ max_score' = MaxScore(members)
    /\ day' = 0
    /\ printed' = <<>>
    /\ score' = EmptyMap
    /\ total_score' = EmptyMap
    /\ assigned' = <<>>
    /\ pos' = 1
    /\ IF TimelinePanics(members)
       THEN rpc' = "panicked" /\ tl' = <<>>
       ELSE /\ rpc' = "loop"
            /\ \E order \in Orders(DOMAIN members) : tl' = Timeline(members, order)
    /\ UNCHANGED <<members, all, today>>
    /\ UNCHANGED cacheVars

\* lines 167-195: one iteration of the loop over the events
ScoreEvent ==
    /\ rpc = "loop"
    /\ pos <= Len(tl)
    /\ LET event == tl[pos]
       IN  IF PoolUnderflows(score, event.star)
           THEN /\ rpc' = "overflow"
                /\ UNCHANGED <<score, total_score, assigned, pos, day, printed>>
           ELSE /\ score' = PoolAfter(score, event.star)
                /\ IF Displayed(event)
                   THEN /\ day' = EventDay(event.timestamp)
                        /\ printed' = Append(printed, Line(pos, event, score'[event.star]))
                   ELSE UNCHANGED <<day, printed>>
                /\ total_score' = TotalAfter(total_score, event.member, score'[event.star])
                /\ assigned' = Append(assigned, score'[event.star])
                /\ pos' = pos + 1
                /\ rpc' = rpc
    /\ UNCHANGED <<members, max_score, tl, all, today>>
    /\ UNCHANGED cacheVars

\* lines 196-200: the loop is over, the totals are printed
ReportEnd ==
    /\ rpc = "loop"
    /\ pos > Len(tl)
    /\ rpc' = "done"
    /\ UNCHANGED <<members, max_score, tl, pos, score, total_score, assigned>>
    /\ UNCHANGED <<all, today, day, printed>>
    /\ UNCHANGED cacheVars

(***************************************************************************)
(* Specifications                                                          *)
(***************************************************************************)
InitCache ==
    /\ cacheFile = AbsentFile
    /\ now = 0
    /\ pc = "idle"
    /\ idx = 1
    /\ args = [all |-> FALSE, flush_cache |-> FALSE]
    /\ attempted = {}
    /\ failed = {}
    /\ last = NoCall
    /\ persisted = [id \in Ids |-> NoEntry]

ReportLocals ==
    /\ max_score = 0
    /\ tl = <<>>
    /\ pos = 1
    /\ score = EmptyMap
    /\ total_score = EmptyMap
    /\ assigned = <<>>
    /\ day = 0
    /\ printed = <<>>

Init ==
    /\ InitCache
    /\ members = NoMembers
    /\ rpc = "off"
    /\ all = FALSE
    /\ today = 1
    /\ ReportLocals

Next ==
    \/ MainStart
    \/ Report_CacheHit
    \/ Report_CachePanic
    \/ Report_FetchOk
    \/ Report_FetchRejected
    \/ Report_FetchPanic
    \/ Tick
    \/ CorruptCacheFile
    \/ RemoveCacheFile

Spec == Init /\ [][Next]_vars

\* members maps of up to MaxMembers members over two days, shown with --all
InitGeneral ==
    /\ \E n \in 0..MaxMembers :
         \E names \in Namings(n), comps \in CompletionMaps(n) :
            members = BuildMembers(n, names, comps)
    /\ all = TRUE
    /\ today = 1

\* two members on December 1st, with and without --all, run on December
\* 1st or 2nd
InitOneDay ==
    /\ \E names \in Namings(2), comps \in OneDayMaps :
            members = BuildMembers(2, names, comps)
    /\ all \in BOOLEAN
    /\ today \in {1, 2}

\* members maps with day numbers after the 25th and star numbers above 2
InitIrregular ==
    /\ \E n \in 1..2 :
         \E names \in Namings(n), comps \in IrregularMaps(n) :
            members = BuildMembers(n, names, comps)
    /\ all = TRUE
    /\ today = 1

\* one member with one star solved a range of durations after the unlock
InitDurations ==
    /\ \E d \in Durations :
            members = BuildMembers(1, <<<<>>>>, [c \in {<<1, 1, 1>>} |-> d])
    /\ all = TRUE
    /\ today = 1

InitReport ==
    /\ InitCache
    /\ InitGeneral \/ InitOneDay \/ InitIrregular \/ InitDurations
    /\ rpc = "start"
    /\ ReportLocals

NextReport ==
    \/ ReportBegin
    \/ ScoreEvent
    \/ ReportEnd

SpecReport == InitReport /\ [][NextReport]_vars

(***************************************************************************)
(* Claims about the snapshot cache and the run of main (Spec)              *)
(***************************************************************************)
\* the entry of the cache file for the leaderboard of the call, if any
FileHolds(leaderbord) ==
    cacheFile.kind = "valid" /\ leaderbord \in DOMAIN cacheFile.cache

\* C1: a call get_json(leaderbord, flush_cache) returns the cached snapshot
\* without contacting the fetcher if and only if flush_cache is false, the
\* cache file exists, it holds an entry for leaderbord and now < fetched_at +
\* 15 minutes; in every other case the fetcher is invoked exactly once.
C1_HitIffFresh ==
    [][last'.outcome # "none" =>
        LET hitCond == /\ ~args.flush_cache
                       /\ cacheFile.kind # "absent"
                       /\ FileHolds(Leaderbord)
                       /\ now < cacheFile.cache[Leaderbord].timestamp + TTL
            servedFromCache == /\ last'.fetches = 0
                               /\ FileHolds(Leaderbord)
                               /\ last'.data = cacheFile.cache[Leaderbord].data
        IN  /\ servedFromCache <=> hitCond
            /\ ~hitCond => last'.fetches = 1]_vars

\* C2: a successful fetch-and-persist for one leaderboard leaves the entries
\* of all other leaderboard ids that were in the cache file before the call
\* in the file, with unchanged fetched_at and snapshot, also with
\* flush_cache = true.
C2_OtherEntriesKept ==
    [][last'.outcome = "fetched" =>
        \A id \in DOMAIN cacheFile.cache \ {Leaderbord} :
            /\ cacheFile'.kind = "valid"
            /\ id \in DOMAIN cacheFile'.cache
            /\ cacheFile'.cache[id] = cacheFile.cache[id]]_vars

\* C3: with a cache file that exists but does not parse, get_json(leaderbord,
\* false) does not fail: it invokes the fetcher as on a cache miss, a
\* successful fetch overwrites the file with a valid mapping, and the run is
\* never terminated by the corrupt cache.
C3_CorruptIsMiss ==
    [][(last'.outcome # "none" /\ cacheFile.kind = "corrupt" /\ ~args.flush_cache) =>
        /\ last'.outcome # "panic_cache"
        /\ pc' # "panicked" \/ last'.outcome = "panic_fetch"
        /\ last'.fetches = 1
        /\ last'.outcome = "fetched" => cacheFile'.kind = "valid"]_vars

RunOver == pc \in {"done", "exited", "panicked"}

\* C4 as stated: a fetch failure for one leaderboard aborts that leaderboard
\* only; when the run is over, the report of every leaderboard of
\* LEADERBOARDS has been attempted.
C4_LaterStillAttempted ==
    (RunOver /\ failed # {}) => attempted = 1..Len(LEADERBOARDS)

\* C4 as amended: a fetch failure (non-200 answer or transport error) ends
\* the whole process: the leaderboards before the failing one were reported,
\* the failing one was attempted, and no later leaderboard is attempted.
C4_FailureEndsRun ==
    \A i \in failed :
        /\ pc \in {"exited", "panicked"}
        /\ attempted = 1..i
        /\ idx = i

\* the fetch of the first leaderboard was rejected and a later one exists
C4_Witness ==
    /\ failed = {1}
    /\ pc = "exited"
    /\ last.outcome = "exit"
    /\ Len(LEADERBOARDS) > 1
    /\ 2 \notin attempted

\* C5: after a successful fetch for leaderbord at time t the cache file holds
\* one entry for it, with fetched_at = t and the snapshot just fetched; and a
\* following get_json(leaderbord, false) before t + 15 minutes returns that
\* snapshot without fetching.
C5_FetchedThenHit ==
    [][/\ last'.outcome = "fetched" =>
            /\ cacheFile'.kind = "valid"
            /\ Leaderbord \in DOMAIN cacheFile'.cache
            /\ cacheFile'.cache[Leaderbord] = CacheEntry(now', last'.data)
       /\ ( /\ last'.outcome # "none"
            /\ ~args.flush_cache
            /\ persisted[Leaderbord] # NoEntry
            /\ now < persisted[Leaderbord].timestamp + TTL ) =>
            /\ last'.outcome = "hit"
            /\ last'.fetches = 0
            /\ last'.data = persisted[Leaderbord].data]_vars

\* C6: the cache file is written only by a successful fetch: a call that
\* ends in a cache hit and a call whose fetch fails leave the content of the
\* cache file unchanged.
C6_WrittenOnlyByFetch ==
    [][last'.outcome \in {"hit", "exit", "panic_fetch", "panic_cache"} =>
        cacheFile' = cacheFile]_vars

\* the fetch for a leaderboard with a stale entry failed, next to the entry
\* of another leaderboard
C6_Witness ==
    /\ last.outcome \in {"exit", "panic_fetch"}
    /\ FileHolds(Leaderbord)
    /\ ~IsFresh(cacheFile.cache[Leaderbord], now)
    /\ Cardinality(DOMAIN cacheFile.cache) = Len(LEADERBOARDS)

(***************************************************************************)
(* Claims about timeline and the scoring loop (SpecReport)                 *)
(***************************************************************************)
Scoring == rpc \in {"loop", "done", "overflow"}

\* timeline has just returned tl to report
Returned == rpc = "loop" /\ pos = 1

\* the number of events before position p of tl with the star_key of tl[p]
EarlierSameStar(p) == Cardinality({q \in 1..(p - 1) : tl[q].star = tl[p].star})

\* C7: the scores assigned to the events of one star_key are, in the order of
\* the timeline, max_score, max_score - 1, ..., max_score - k + 1: the score
\* of an event is max_score minus the number of earlier events with the same
\* star_key, whatever events of other star_keys lie between them.
C7_ScoreDecay ==
    Scoring =>
        /\ max_score = Cardinality(DOMAIN members)
        /\ \A p \in 1..Len(assigned) : assigned[p] = max_score - EarlierSameStar(p)

\* the loop has scored two events of one star_key with an event of another
\* star_key between them
C7_Witness ==
    /\ rpc = "done"
    /\ \E p, q, r \in 1..Len(assigned) :
          /\ p < q /\ q < r
          /\ tl[p].star = tl[r].star
          /\ tl[q].star # tl[p].star

\* C8: every assigned score is at least 1 and at most max_score, and no pool
\* counter is decremented below 1 (so the usize never underflows).
C8_ScoreBounds ==
    /\ rpc # "overflow"
    /\ Scoring =>
          /\ \A p \in 1..Len(assigned) : assigned[p] \in 1..max_score
          /\ \A k \in DOMAIN score : score[k] \in 1..max_score

\* every member of a snapshot with several members has solved one star, and
\* the last of them was scored 1
C8_Witness ==
    /\ rpc = "done"
    /\ max_score >= 2
    /\ \E p \in 1..Len(assigned) :
          /\ assigned[p] = 1
          /\ EarlierSameStar(p) = max_score - 1

\* C9: the sequence returned by timeline is sorted non-decreasing by
\* timestamp.
C9_Sorted ==
    Returned =>
        \A p, q \in 1..Len(tl) : p < q => tl[p].timestamp <= tl[q].timestamp

\* timeline returned the events of a member who solved a star of day 2
\* before a star of day 1: they were pushed by day, so the sort moved one
C9_Witness ==
    /\ Returned
    /\ \E k \in DOMAIN members :
          LET days == members[k].completion_day_level
          IN  /\ {1, 2} \subseteq DOMAIN days
              /\ \E s1 \in DOMAIN days[1], s2 \in DOMAIN days[2] :
                    days[2][s2].get_star_ts < days[1][s1].get_star_ts

\* the day numbers of the members map
DayKeys == UNION {DOMAIN members[k].completion_day_level : k \in DOMAIN members}

\* the completions of the members map, as <<key, dayno, star>>
Completions ==
    {c \in (DOMAIN members) \X DayKeys \X {1, 2} :
        /\ c[2] \in DOMAIN members[c[1]].completion_day_level
        /\ c[3] \in DOMAIN members[c[1]].completion_day_level[c[2]]}

SolvedAt(k, dayno, star) == members[k].completion_day_level[dayno][star].get_star_ts

\* the event C10 describes for a completion
ClaimedEvent(k, dayno, star) ==
    [timestamp |-> SolvedAt(k, dayno, star),
     elapsed |->
        IF star = 2 /\ 1 \in DOMAIN members[k].completion_day_level[dayno]
        THEN SolvedAt(k, dayno, 2) - SolvedAt(k, dayno, 1)
        ELSE SolvedAt(k, dayno, star) - Unlock(dayno),
     member |-> Label(members[k]),
     star |-> StarKey(dayno, star)]

\* C10: the elapsed value of a star-1 event is solved_at(star 1) minus the
\* unlock instant of its day; that of a star-2 event is solved_at(star 2)
\* minus solved_at(star 1) of the same member and day when star 1 is present
\* and solved_at(star 2) minus the unlock instant of its day otherwise.
C10_Elapsed ==
    Returned =>
        /\ \A c \in Completions :
              \E p \in 1..Len(tl) : tl[p] = ClaimedEvent(c[1], c[2], c[3])
        /\ \A p \in 1..Len(tl) :
              \E c \in Completions : tl[p] = ClaimedEvent(c[1], c[2], c[3])

\* timeline returned the events of a member with both stars of a day and of
\* a member with star 2 only, on two different days
C10_Witness ==
    /\ Returned
    /\ \E c, d \in Completions :
          /\ c[3] = 2 /\ d[3] = 2
          /\ c[2] # d[2]
          /\ <<c[1], c[2], 1>> \in Completions
          /\ <<d[1], d[2], 1>> \notin Completions

\* every star is solved at or after the unlock instant of its day, and star 2
\* at or after star 1 of the same member and day
WellFormed ==
    \A c \in Completions :
        /\ SolvedAt(c[1], c[2], c[3]) >= (c[2] - 1) * SecondsPerDay
        /\ (c[3] = 2 /\ <<c[1], c[2], 1>> \in Completions)
              => SolvedAt(c[1], c[2], 2) >= SolvedAt(c[1], c[2], 1)

\* C11: for a snapshot in which every completion is solved at or after the
\* unlock instant of its day, and star 2 at or after star 1 where both are
\* present, every event of the timeline has elapsed >= 0.
C11_ElapsedNonNegative ==
    (Returned /\ WellFormed) => \A p \in 1..Len(tl) : tl[p].elapsed >= 0

\* timeline returned the events of a well-formed snapshot in which a member
\* solved both stars of day 1, the second after the first, and a star of
\* day 2 was solved
C11_Witness ==
    /\ Returned
    /\ WellFormed
    /\ \E k \in DOMAIN members :
          /\ <<k, 1, 1>> \in Completions
          /\ <<k, 1, 2>> \in Completions
          /\ SolvedAt(k, 1, 2) > SolvedAt(k, 1, 1)
    /\ \E c \in Completions : c[2] = 2
    /\ \E p \in 1..Len(tl) : tl[p].elapsed > 0

\* the loop of report (lines 167-195) run from position p of events: the
\* scores it assigns and the totals it leaves
RECURSIVE RunLoop(_, _, _, _, _)
RunLoop(events, p, pool, total, given) ==
    IF p > Len(events)
    THEN [total_score |-> total, assigned |-> given]
    ELSE LET pool2 == PoolAfter(pool, events[p].star)
             star_score == pool2[events[p].star]
         IN  RunLoop(events, p + 1, pool2,
                     TotalAfter(total, events[p].member, star_score),
                     Append(given, star_score))

\* C12: reconstruction and scoring are a pure function of the snapshot: the
\* events, the score of each event and the totals of a finished run are those
\* of every other run on the same members map, whatever the order in which
\* the map is iterated, ties on star_key and timestamp included.
C12_OrderIndependent ==
    rpc = "done" =>
        \A order \in Orders(DOMAIN members) :
            LET other == Timeline(members, order)
                run == RunLoop(other, 1, EmptyMap, EmptyMap, <<>>)
            IN  /\ other = tl
                /\ run.assigned = assigned
                /\ run.total_score = total_score

\* the sum of the scores assigned to the first n events that carry label
RECURSIVE ScoreSum(_, _)
ScoreSum(label, n) ==
    IF n = 0 THEN 0
    ELSE ScoreSum(label, n - 1) + (IF tl[n].member = label THEN assigned[n] ELSE 0)

\* the members map of the scenario: A solved star 1 of day 1 ten minutes
\* after the unlock and star 2 twenty-five minutes after it, B solved star 1
\* five minutes after the unlock
Scenario ==
    members = BuildMembers(2, <<<<"A">>, <<"B">>>>,
                           (<<1, 1, 1>> :> 600) @@ (<<1, 1, 2>> :> 1500)
                              @@ (<<2, 1, 1>> :> 300))

\* C13: the total of a label is the sum of the scores of the events that
\* carry it; in the scenario the events are (B, 01-1, 2), (A, 01-1, 1),
\* (A, 01-2, 2) in this order and the totals are A = 3 and B = 2.
C13_TotalsAreSums ==
    /\ Scoring =>
          /\ DOMAIN total_score = {tl[p].member : p \in 1..Len(assigned)}
          /\ \A label \in DOMAIN total_score :
                total_score[label] = ScoreSum(label, Len(assigned))
    /\ (rpc = "done" /\ Scenario) =>
          /\ [p \in 1..Len(tl) |-> <<tl[p].member, tl[p].star, assigned[p]>>]
                = << <<"B", "01-1", 2>>, <<"A", "01-1", 1>>, <<"A", "01-2", 2>> >>
          /\ total_score = ("A" :> 3) @@ ("B" :> 2)

\* the loop has ended on the scenario
C13_Witness ==
    /\ rpc = "done"
    /\ Scenario
    /\ Len(assigned) = 3

\* the members that have solved nothing
Idle == {k \in DOMAIN members : DOMAIN members[k].completion_day_level = {}}

\* C14: a member with an empty completion map produces no event but is
\* counted in max_score, so the first finisher of any star_key is scored the
\* number of all members, idle ones included.
C14_IdleMembersCount ==
    Scoring =>
        /\ \A k \in Idle :
              Cardinality({p \in 1..Len(tl) : tl[p].member = Label(members[k])})
                = Cardinality({c \in Completions :
                                  Label(members[c[1]]) = Label(members[k])})
        /\ max_score = Cardinality(DOMAIN members)
        /\ \A p \in 1..Len(assigned) :
              EarlierSameStar(p) = 0 => assigned[p] = Cardinality(DOMAIN members)

\* the loop has scored the only event of a snapshot of two members, one of
\* them idle and with a label of its own
C14_Witness ==
    /\ rpc = "done"
    /\ Cardinality(DOMAIN members) = 2
    /\ \E k \in Idle : \A p \in 1..Len(tl) : tl[p].member # Label(members[k])
    /\ Len(assigned) = 1
    /\ assigned[1] = 2

\* the days that have an unlock instant in the puzzle calendar
CalendarDays == 1..25

\* C15: a completion under a day number outside 1..25 is rejected: the run
\* is not aborted, the timeline has no event for that day, and the events of
\* the days 1..25 of all members are still emitted.
C15_BadDaySkipped ==
    /\ rpc # "panicked"
    /\ Returned =>
          /\ \A p \in 1..Len(tl) :
                \E c \in Completions :
                    c[2] \in CalendarDays /\ tl[p] = ClaimedEvent(c[1], c[2], c[3])
          /\ \A c \in Completions :
                c[2] \in CalendarDays =>
                    \E p \in 1..Len(tl) : tl[p] = ClaimedEvent(c[1], c[2], c[3])

\* a number below 100 written with two decimal digits
TwoDigits(n) == ToString(n \div 10) \o ToString(n % 10)

\* the rendering C16 describes for a duration of s whole seconds, s >= 0
Rendered(s) ==
    LET clock == TwoDigits((s \div 60) % 60) \o ":" \o TwoDigits(s % 60)
    IN  IF s >= 86400
        THEN ToString(s \div 86400) \o "d " \o ToString((s \div 3600) % 24)
               \o ":" \o clock
        ELSE IF s >= 3600
        THEN ToString(s \div 3600) \o ":" \o clock
        ELSE clock

\* C16: a non-negative duration of s seconds is printed as 'Dd H:MM:SS' when
\* s >= 86400, as 'H:MM:SS' when 3600 <= s < 86400 and as 'MM:SS' otherwise;
\* 25h 3m 9s is printed '1d 1:03:09', 3m 9s '03:09' and 1h 0m 5s '1:00:05'.
C16_DurationFormat ==
    \A n \in 1..Len(printed) :
          LET s == tl[printed[n].pos].elapsed
          IN  /\ s >= 0 => printed[n].duration = Rendered(s)
              /\ s = 25 * 3600 + 3 * 60 + 9 => printed[n].duration = "1d 1:03:09"
              /\ s = 3 * 60 + 9 => printed[n].duration = "03:09"
              /\ s = 3600 + 5 => printed[n].duration = "1:00:05"

\* report has printed the event of a star solved 25h 3m 9s after the unlock
C16_Witness ==
    /\ rpc = "done"
    /\ Len(printed) = 1
    /\ tl[printed[1].pos].elapsed = 25 * 3600 + 3 * 60 + 9
    /\ printed[1].duration = "1d 1:03:09"

\* C17: the scores and the totals do not depend on the flag all: a finished
\* run without --all has given the scores and the totals that every run with
\* --all gives on the same members map (the loop of RunLoop is the one of a
\* run that displays every event).
C17_FlagIndependent ==
    (rpc = "done" /\ ~all) =>
        \A order \in Orders(DOMAIN members) :
            LET shown == RunLoop(Timeline(members, order), 1, EmptyMap, EmptyMap, <<>>)
            IN  /\ shown.assigned = assigned
                /\ shown.total_score = total_score

\* the entries of the members map under a star number other than 1 and 2
OtherStars ==
    {c \in (DOMAIN members) \X DayKeys \X {3} :
        /\ c[2] \in DOMAIN members[c[1]].completion_day_level
        /\ c[3] \in DOMAIN members[c[1]].completion_day_level[c[2]]}

\* C18: the timeline returned has exactly one event for every completion
\* (member, day, star) of the members map with star 1 or 2 and no other
\* event: every event occurs as often as there are completions that yield
\* it, the number of events is the number of completions, and an entry under
\* another star number yields no event.
C18_OneEventPerCompletion ==
    Returned =>
        /\ Len(tl) = Cardinality(Completions)
        /\ \A c \in Completions :
              Cardinality({p \in 1..Len(tl) : tl[p] = ClaimedEvent(c[1], c[2], c[3])})
                = Cardinality({d \in Completions :
                      ClaimedEvent(d[1], d[2], d[3]) = ClaimedEvent(c[1], c[2], c[3])})
        /\ \A p \in 1..Len(tl) :
              /\ \E c \in Completions : tl[p] = ClaimedEvent(c[1], c[2], c[3])
              /\ \A c \in OtherStars : tl[p].star # StarKey(c[2], c[3])

\* timeline returned the events of a members map that has an entry under
\* star 3 beside a completion, and two completions solved at the same second
C18_Witness ==
    /\ Returned
    /\ OtherStars # {}
    /\ \E c, d \in Completions :
          c # d /\ SolvedAt(c[1], c[2], c[3]) = SolvedAt(d[1], d[2], d[3])

\* the label C19 gives member k: its display name, or Anonymous#<id>
Resolved(k) ==
    IF members[k].name = <<>> THEN "Anonymous#" \o ToString(members[k].id)
    ELSE members[k].name[1]

\* the members with at least one event
Active == {c[1] : c \in Completions}

\* C19: the totals are keyed by the resolved label: after the loop there is
\* exactly one entry per distinct label of the members that have an event, a
\* member without a display name is keyed Anonymous#<id>, and the entry of a
\* label is the sum of the scores of the events of all members that carry
\* it, so members that share a display name share one total.
C19_KeyedByLabel ==
    rpc = "done" =>
        /\ DOMAIN total_score = {Resolved(k) : k \in Active}
        /\ \A k \in Active :
              /\ total_score[Resolved(k)] = ScoreSum(Resolved(k), Len(tl))
              /\ Cardinality({p \in 1..Len(tl) : tl[p].member = Resolved(k)})
                    = Cardinality({c \in Completions : Resolved(c[1]) = Resolved(k)})

\* the loop has ended on a snapshot in which two members with the same
\* display name have both solved a star: their scores are in one total
C19_Witness ==
    /\ rpc = "done"
    /\ \E j, k \in Active :
          /\ j # k
          /\ members[j].name # <<>>
          /\ members[j].name = members[k].name
    /\ Cardinality(DOMAIN total_score) = 1
    /\ \E label \in DOMAIN total_score : total_score[label] >= 3

====
